---- MODULE Spec2Model ----
(***************************************************************************)
(* A model of the ncurses line editor of src/main.c: the Buffer of lines   *)
(* (each a NUL-terminated byte array with a separately tracked length),    *)
(* the Cursor with its scroll offsets, and main's event loop               *)
(* getch -> switch -> clamp_cursor -> redraw.                              *)
(*                                                                         *)
(* C values are modelled as follows.                                       *)
(*   char *      a sequence of bytes holding the whole allocation; C index *)
(*               i is element i+1.  Bytes are the characters of Chars, NL, *)
(*               NUL and UNINIT (a byte realloc added and nobody wrote).   *)
(*   size_t      an integer standing for its residue modulo 2^64: a        *)
(*               negative integer n stands for n + 2^64, a count larger    *)
(*               than any allocation.                                      *)
(*   char **     the sequence of the num_lines live slots of the array.    *)
(* An access outside an allocation is undefined behaviour: the operation   *)
(* reports ok = FALSE and the caller draws one of UBOutcomes.              *)
(***************************************************************************)
EXTENDS Integers, Sequences, FiniteSets, TLC

VARIABLES
  ed,     \* main's `Editor ed`: [buffer, cursor]
  LINES,  \* ncurses LINES: the viewport height
  COLS,   \* ncurses COLS: the viewport width
  pc,     \* where main is: "getch", "clamp", "redraw", "exited", ...
  ch,     \* main's `int ch`, from the getch that read it to the end of the iteration
  msg,    \* the status line show_message painted, until clear() wipes it
  f,      \* what a save_buffer call did to its stream `FILE *f` (round-trip specification only)
  input,  \* the file handed to load_file (round-trip and capacity specifications)
  hist    \* the calls or keys so far (operation, clamp, capacity and moving-down specifications)

vars == <<ed, LINES, COLS, pc, ch, msg, f, input, hist>>

(***************************************************************************)
(* Bounds of the model.                                                    *)
(***************************************************************************)
MaxLines == 3   \* event loop: most lines the buffer holds
MaxChars == 1   \* event loop: most characters the buffer holds, over all its lines
MaxRows == 2    \* largest viewport height
MaxCols == 2    \* largest viewport width
FileLines == 2  \* operation and round-trip specifications: most lines of the file loaded
FileChars == 2  \* operation and round-trip specifications: most characters of the file loaded
MaxOps == 2     \* operation specification: most operations applied in a row
DownLines == 20 \* moving down: most lines of the file loaded
DownRows == 10  \* moving down: largest viewport height
MaxDowns == 16  \* moving down: most KEY_DOWN events in a row
ClampSpan == 2  \* clamp specification: cursor and offsets start in -ClampSpan..ClampSpan
NearCapacity == 2  \* capacity specification: the file loaded has within NearCapacity of
                   \* InitialCapacity lines
TryCapacity == 4   \* capacity specification: largest capacity buffer_ensure_capacity is tried on

Chars == {"a", "b"}   \* the printable characters of files and calls
Typed == {"a"}        \* the printable character typed in the event loop, whose
                      \* claims read only lengths and positions
NUL == "NUL"
NL == "\n"
UNINIT == "?"

NoKey == "none"
NoStream == [ret |-> -1, stage |-> "none", out |-> <<>>]
NoInput == [X |-> <<"-">>, eofnl |-> FALSE]

(***************************************************************************)
(* <string.h> and <stdlib.h> on byte arrays.                               *)
(***************************************************************************)

\* Is there a terminator at C index >= from inside the allocation?
HasNul(s, from) == \E i \in (from + 1)..Len(s) : s[i] = NUL

\* C index of the first terminator at or after C index `from`.
NulAt(s, from) ==
  (CHOOSE i \in (from + 1)..Len(s) :
      s[i] = NUL /\ \A j \in (from + 1)..(i - 1) : s[j] # NUL) - 1

strlen(s) == NulAt(s, 0)

\* The bytes of the string starting at C index `from`, terminator excluded.
StrFrom(s, from) == SubSeq(s, from + 1, NulAt(s, from))

\* strdup(&s[from]): a fresh allocation of exactly the string and its terminator.
strdup(s, from) == Append(StrFrom(s, from), NUL)

\* strcspn that stops at the terminator only: the '\n' is not found.
strcspn_terminator_only(s) == NulAt(s, 0)

\* strcspn(s, "\n"): the length of the prefix holding neither '\n' nor the terminator.
strcspn(s) ==
  (CHOOSE i \in 1..Len(s) :
      s[i] \in {NL, NUL} /\ \A j \in 1..(i - 1) : s[j] \notin {NL, NUL}) - 1

\* realloc(s, n): the first min(old, n) bytes kept, any new byte indeterminate.
realloc(s, n) == [i \in 1..n |-> IF i <= Len(s) THEN s[i] ELSE UNINIT]

\* May [at, at+n) be accessed in s?  With n = 0 a one-past-the-end pointer is fine.
InBounds(s, at, n) == n >= 0 /\ at >= 0 /\ at + n <= Len(s)

\* memmove(&s[dst], &s[src], n) inside one allocation.
memmove(s, dst, src, n) ==
  [i \in 1..Len(s) |->
     IF dst < i /\ i <= dst + n THEN s[i - dst + src] ELSE s[i]]

\* memcpy(&d[dst], s, n) from another allocation.
memcpy(d, dst, s, n) ==
  [i \in 1..Len(d) |-> IF dst < i /\ i <= dst + n THEN s[i - dst] ELSE d[i]]

\* RemoveAt without the move: the last entry is dropped, whatever `at` is.
RemoveAt_last(s, at) == SubSeq(s, 1, Len(s) - 1)

\* The sequence s without its C index `at`, and with v put in before C index `at`.
RemoveAt(s, at) == SubSeq(s, 1, at) \o SubSeq(s, at + 2, Len(s))

\* InsertAt one slot too early: the new entry lands before C index at - 1.
InsertAt_one_slot_early(s, at, v) ==
  SubSeq(s, 1, at - 1) \o <<v>> \o SubSeq(s, at, Len(s))

InsertAt(s, at, v) == SubSeq(s, 1, at) \o <<v>> \o SubSeq(s, at + 1, Len(s))

(***************************************************************************)
(* Buffer.                                                                 *)
(***************************************************************************)
InitialCapacity == 256

buffer_init(initial_capacity) ==
  [lines |-> <<>>, line_len |-> <<>>, num_lines |-> 0,
   capacity |-> initial_capacity]

RECURSIVE Doubled(_, _)
Doubled(new_capacity, required) ==
  IF new_capacity < required THEN Doubled(new_capacity * 2, required)
  ELSE new_capacity

\* buffer_ensure_capacity with `required <= buf->capacity + 1`: the array
\* grows one line too late.
buffer_ensure_capacity_one_late(buf, required) ==
  IF required <= buf.capacity + 1 THEN buf
  ELSE [buf EXCEPT !.capacity = Doubled(buf.capacity * 2, required)]

buffer_ensure_capacity(buf, required) ==
  IF required <= buf.capacity THEN buf
  ELSE [buf EXCEPT !.capacity = Doubled(buf.capacity * 2, required)]

\* delete_line without its second memmove: the lengths stay where they were.
delete_line_lens_not_moved(buf, at) ==
  [buf EXCEPT !.lines = RemoveAt(@, at), !.num_lines = @ - 1]

\* delete_line freeing and closing the slot before `at`.
delete_line_previous(buf, at) ==
  [buf EXCEPT !.lines = RemoveAt(@, at - 1),
              !.line_len = RemoveAt(@, at - 1),
              !.num_lines = @ - 1]

\* delete_line: the slot `at` freed and the later slots moved up by one.
delete_line(buf, at) ==
  [buf EXCEPT !.lines = RemoveAt(@, at),
              !.line_len = RemoveAt(@, at),
              !.num_lines = @ - 1]

\* The text of line i (C index), as fputs or mvprintw would read it.
Text(buf, i) == StrFrom(buf.lines[i + 1], 0)
Texts(buf) == [i \in 1..Len(buf.lines) |-> StrFrom(buf.lines[i], 0)]

(***************************************************************************)
(* load_file: getline until EOF, each line cut at its '\n' and duplicated. *)
(***************************************************************************)

\* getline on the bytes left: the next line with its '\n', or all of them at EOF.
NextLine(rest) ==
  IF \E i \in 1..Len(rest) : rest[i] = NL
  THEN SubSeq(rest, 1, CHOOSE i \in 1..Len(rest) :
                         rest[i] = NL /\ \A j \in 1..(i - 1) : rest[j] # NL)
  ELSE rest

\* The body of the while loop: the line getline got is cut and appended.
AppendLine(buf, got) ==
  LET b1 == buffer_ensure_capacity(buf, buf.num_lines + 1)
      line == Append(got, NUL)
      cut == [line EXCEPT ![strcspn(line) + 1] = NUL]
      dup == strdup(cut, 0)
  IN [b1 EXCEPT !.lines = Append(@, dup),
                !.line_len = Append(@, strlen(dup)),
                !.num_lines = @ + 1]

RECURSIVE ReadLines(_, _)
ReadLines(buf, rest) ==
  IF rest = <<>> THEN buf    \* getline returns -1
  ELSE
    LET got == NextLine(rest)
    IN ReadLines(AppendLine(buf, got), SubSeq(rest, Len(got) + 1, Len(rest)))

\* After the loop: a buffer without lines gets one empty line.
EnsureOneLine(read) ==
  IF read.num_lines = 0
  THEN [buffer_ensure_capacity(read, 1) EXCEPT
          !.lines = <<strdup(<<NUL>>, 0)>>,
          !.line_len = <<0>>,
          !.num_lines = 1]
  ELSE read

\* load_file without lines 269-274: an empty file leaves an empty buffer.
load_file_no_empty_case(file) ==
  [buffer |-> ReadLines(buffer_init(InitialCapacity), file),
   cursor |-> [cx |-> 0, cy |-> 0, rowoff |-> 0, coloff |-> 0]]

load_file(file) ==
  [buffer |-> EnsureOneLine(ReadLines(buffer_init(InitialCapacity), file)),
   cursor |-> [cx |-> 0, cy |-> 0, rowoff |-> 0, coloff |-> 0]]

(***************************************************************************)
(* The files of the model: at most n lines holding at most room characters *)
(* of an alphabet.                                                         *)
(***************************************************************************)
Strings(room, alphabet) == UNION {[1..k -> alphabet] : k \in 0..room}

RECURSIVE SeqsOf(_, _, _)
SeqsOf(n, room, alphabet) ==
  IF n = 0 THEN {<<>>}
  ELSE {<<>>} \cup
       UNION {{<<s>> \o X : X \in SeqsOf(n - 1, room - Len(s), alphabet)} :
                s \in Strings(room, alphabet)}

\* A file is a sequence of lines, each ended by '\n'; the last '\n' may be
\* missing after a non-empty last line.
Inputs(n, room, alphabet) ==
  {i \in [X : SeqsOf(n, room, alphabet), eofnl : BOOLEAN] :
      i.eofnl \/ (i.X # <<>> /\ i.X[Len(i.X)] # <<>>)}

RECURSIVE Joined(_)
Joined(X) == IF X = <<>> THEN <<>> ELSE Head(X) \o <<NL>> \o Joined(Tail(X))

FileOf(in) ==
  IF in.eofnl THEN Joined(in.X)
  ELSE SubSeq(Joined(in.X), 1, Len(Joined(in.X)) - 1)

(***************************************************************************)
(* save_buffer: every way the write can end.  `out` is what reached the    *)
(* stream before the call returned, `stage` the call that failed.          *)
(***************************************************************************)
RECURSIVE Written(_, _)
Written(buf, n) ==
  IF n = 0 THEN <<>>
  ELSE Written(buf, n - 1) \o Text(buf, n - 1) \o <<NL>>

\* save_buffer without `if (fclose(f) != 0) return 0`: a failed close counts
\* as a successful save.
save_buffer_fclose_unchecked(e) ==
  LET buf == e.buffer IN
    {[ret |-> 0, stage |-> "fopen", out |-> <<>>]}
    \cup {[ret |-> 0, stage |-> "fputs", out |-> Written(buf, i)] :
            i \in 0..(buf.num_lines - 1)}
    \cup {[ret |-> 0, stage |-> "fputc", out |-> Written(buf, i) \o Text(buf, i)] :
            i \in 0..(buf.num_lines - 1)}
    \cup {[ret |-> 1, stage |-> "fclose", out |-> Written(buf, buf.num_lines)]}
    \cup {[ret |-> 1, stage |-> "done", out |-> Written(buf, buf.num_lines)]}

save_buffer(e) ==
  LET buf == e.buffer IN
    {[ret |-> 0, stage |-> "fopen", out |-> <<>>]}
    \cup {[ret |-> 0, stage |-> "fputs", out |-> Written(buf, i)] :
            i \in 0..(buf.num_lines - 1)}
    \cup {[ret |-> 0, stage |-> "fputc", out |-> Written(buf, i) \o Text(buf, i)] :
            i \in 0..(buf.num_lines - 1)}
    \cup {[ret |-> 0, stage |-> "fclose", out |-> Written(buf, buf.num_lines)]}
    \cup {[ret |-> 1, stage |-> "done", out |-> Written(buf, buf.num_lines)]}

\* The status line main has show_message paint after save_buffer returned ret.
StatusMessage(ret) ==
  IF ret = 1 THEN "File saved successfully" ELSE "ERROR: Failed to save file"

(***************************************************************************)
(* clamp_cursor, one operator per pair of if-statements.                   *)
(***************************************************************************)
\* ClampRow without `if (c->cy < 0)`.
ClampRow_no_lower(cy, num_lines) ==
  IF cy >= num_lines THEN num_lines - 1 ELSE cy

ClampRow(cy, num_lines) ==
  LET cy1 == IF cy < 0 THEN 0 ELSE cy
  IN IF cy1 >= num_lines THEN num_lines - 1 ELSE cy1

\* ClampCol without `if (c->cx > line_len)`.
ClampCol_no_upper(cx, len) ==
  IF cx < 0 THEN 0 ELSE cx

\* ClampCol without `if (c->cx < 0)`.
ClampCol_no_lower(cx, len) ==
  IF cx > len THEN len ELSE cx

ClampCol(cx, len) ==
  LET cx1 == IF cx < 0 THEN 0 ELSE cx
  IN IF cx1 > len THEN len ELSE cx1

\* ScrollRow with `c->cy - LINES` for `c->cy - LINES + 1`.
ScrollRow_off_by_one(cy, rowoff, rows) ==
  LET r1 == IF cy < rowoff THEN cy ELSE rowoff
  IN IF cy >= r1 + rows THEN cy - rows ELSE r1

\* ScrollRow with `c->cy` for `c->cy - LINES + 1`: the cursor's row goes to the
\* top of the viewport instead of its bottom.
ScrollRow_to_top(cy, rowoff, rows) ==
  LET r1 == IF cy < rowoff THEN cy ELSE rowoff
  IN IF cy >= r1 + rows THEN cy ELSE r1

\* ScrollRow with `c->rowoff + 1` for `c->cy - LINES + 1`: the view follows
\* the cursor one row per call.
ScrollRow_one_row_per_call(cy, rowoff, rows) ==
  LET r1 == IF cy < rowoff THEN cy ELSE rowoff
  IN IF cy >= r1 + rows THEN r1 + 1 ELSE r1

ScrollRow(cy, rowoff, rows) ==
  LET r1 == IF cy < rowoff THEN cy ELSE rowoff
  IN IF cy >= r1 + rows THEN cy - rows + 1 ELSE r1

\* ScrollCol with `>` for `>=`: the view stays while the cursor is on the
\* first column right of it.
ScrollCol_one_column_late(cx, coloff, cols) ==
  LET c1 == IF cx < coloff THEN cx ELSE coloff
  IN IF cx > c1 + cols THEN cx - cols + 1 ELSE c1

ScrollCol(cx, coloff, cols) ==
  LET c1 == IF cx < coloff THEN cx ELSE coloff
  IN IF cx >= c1 + cols THEN cx - cols + 1 ELSE c1

\* [ed, ok]: ok is FALSE when line_len[cy] is read outside the live slots.
clamp_cursor(e, rows, cols) ==
  LET buf == e.buffer
      c == e.cursor
      cy == ClampRow(c.cy, buf.num_lines)
      ok == 0 <= cy /\ cy < Len(buf.line_len)
      cx == IF ok THEN ClampCol(c.cx, buf.line_len[cy + 1]) ELSE c.cx
  IN [ok |-> ok,
      ed |-> [e EXCEPT !.cursor =
                [cx |-> cx, cy |-> cy,
                 rowoff |-> ScrollRow(cy, c.rowoff, rows),
                 coloff |-> ScrollCol(cx, c.coloff, cols)]]]

(***************************************************************************)
(* redraw: the rows it indexes and the place it moves the cursor to.       *)
(***************************************************************************)
ScreenPos(e) ==
  [y |-> e.cursor.cy - e.cursor.rowoff, x |-> e.cursor.cx - e.cursor.coloff]

\* The line indices redraw reads: i + rowoff for i < LINES while below num_lines.
DrawnRows(e, rows) ==
  {i + e.cursor.rowoff : i \in {j \in 0..(rows - 1) :
      \A k \in 0..j : k + e.cursor.rowoff < e.buffer.num_lines}}

\* Every row read is a live slot, and &line[coloff] is formed only inside it.
redraw(e, rows) ==
  \A r \in DrawnRows(e, rows) :
     /\ 0 <= r /\ r < Len(e.buffer.lines)
     /\ e.buffer.line_len[r + 1] > e.cursor.coloff => e.cursor.coloff >= 0

(***************************************************************************)
(* The editing operations.  Each yields [ok, ed]: ed is the Editor the     *)
(* call leaves, ok is FALSE when the call reads or writes outside the live *)
(* slots of the line array or outside a line's allocation.                 *)
(***************************************************************************)
LiveRow(buf, row) == 0 <= row /\ row < buf.num_lines /\ row < Len(buf.lines)

Undefined(e) == [ok |-> FALSE, ed |-> e]
Defined(e) == [ok |-> TRUE, ed |-> e]

\* The byte counts of the three memmove calls inside a line.
InsertCount(len, cx) == len - cx + 1

\* backspace's count without the terminator.
BackspaceCount_no_terminator(len, cx) == len - cx

BackspaceCount(len, cx) == len - cx + 1
DeleteCount(len, cx) == len - cx

insert_char(e, c) ==
  LET buf == e.buffer
      cx == e.cursor.cx
      cy == e.cursor.cy
  IN IF ~LiveRow(buf, cy) THEN Undefined(e)
     ELSE
       LET len == buf.line_len[cy + 1]
           n == InsertCount(len, cx)
           grown == realloc(buf.lines[cy + 1], len + 2)
       IN IF ~(len + 2 >= 1 /\ InBounds(grown, cx, n) /\ InBounds(grown, cx + 1, n)
               /\ InBounds(grown, cx, 1))
          THEN Undefined(e)
          ELSE
            LET moved == memmove(grown, cx + 1, cx, n)
                line == [moved EXCEPT ![cx + 1] = c]
            IN Defined([e EXCEPT !.buffer.lines[cy + 1] = line,
                                 !.buffer.line_len[cy + 1] = len + 1,
                                 !.cursor.cx = cx + 1])

\* JoinPrev with memcpy to &prev[0]: the current line replaces the previous one.
JoinPrev_replacing(prev, prev_len, line, len) ==
  memcpy(realloc(prev, prev_len + len + 1), 0, line, len + 1)

\* backspace's realloc of the previous line and memcpy of the current line,
\* terminator included, to &prev[prev_len].
JoinPrev(prev, prev_len, line, len) ==
  memcpy(realloc(prev, prev_len + len + 1), prev_len, line, len + 1)

\* backspace without `if (c->cy == 0) return`: at (0, 0) it goes on to merge
\* the first line into a line before it.
backspace_no_first_row_check(e) ==
  LET buf == e.buffer
      cx == e.cursor.cx
      cy == e.cursor.cy
  IN IF cx > 0
     THEN IF ~LiveRow(buf, cy) THEN Undefined(e)
          ELSE
            LET line == buf.lines[cy + 1]
                n == BackspaceCount(buf.line_len[cy + 1], cx)
            IN IF ~(InBounds(line, cx, n) /\ InBounds(line, cx - 1, n))
               THEN Undefined(e)
               ELSE Defined([e EXCEPT
                      !.buffer.lines[cy + 1] = memmove(line, cx - 1, cx, n),
                      !.buffer.line_len[cy + 1] = @ - 1,
                      !.cursor.cx = cx - 1])
     ELSE IF ~(LiveRow(buf, cy) /\ LiveRow(buf, cy - 1)) THEN Undefined(e)
     ELSE
       LET prev_len == buf.line_len[cy]
           len == buf.line_len[cy + 1]
       IN IF ~(prev_len >= 0 /\ InBounds(buf.lines[cy + 1], 0, len + 1))
          THEN Undefined(e)
          ELSE
            LET prev == JoinPrev(buf.lines[cy], prev_len, buf.lines[cy + 1], len)
                merged == [buf EXCEPT !.lines[cy] = prev,
                                      !.line_len[cy] = @ + len]
            IN Defined([e EXCEPT !.buffer = delete_line(merged, cy),
                                 !.cursor.cy = cy - 1,
                                 !.cursor.cx = prev_len])

backspace(e) ==
  LET buf == e.buffer
      cx == e.cursor.cx
      cy == e.cursor.cy
  IN IF cx > 0
     THEN IF ~LiveRow(buf, cy) THEN Undefined(e)
          ELSE
            LET line == buf.lines[cy + 1]
                n == BackspaceCount(buf.line_len[cy + 1], cx)
            IN IF ~(InBounds(line, cx, n) /\ InBounds(line, cx - 1, n))
               THEN Undefined(e)
               ELSE Defined([e EXCEPT
                      !.buffer.lines[cy + 1] = memmove(line, cx - 1, cx, n),
                      !.buffer.line_len[cy + 1] = @ - 1,
                      !.cursor.cx = cx - 1])
     ELSE IF cy = 0 THEN Defined(e)
     ELSE IF ~(LiveRow(buf, cy) /\ LiveRow(buf, cy - 1)) THEN Undefined(e)
     ELSE
       LET prev_len == buf.line_len[cy]
           len == buf.line_len[cy + 1]
       IN IF ~(prev_len >= 0 /\ InBounds(buf.lines[cy + 1], 0, len + 1))
          THEN Undefined(e)
          ELSE
            LET prev == JoinPrev(buf.lines[cy], prev_len, buf.lines[cy + 1], len)
                merged == [buf EXCEPT !.lines[cy] = prev,
                                      !.line_len[cy] = @ + len]
            IN Defined([e EXCEPT !.buffer = delete_line(merged, cy),
                                 !.cursor.cy = cy - 1,
                                 !.cursor.cx = prev_len])

delete_at_cursor(e) ==
  LET buf == e.buffer
      cx == e.cursor.cx
      cy == e.cursor.cy
  IN IF ~LiveRow(buf, cy) THEN Undefined(e)
     ELSE IF cx < buf.line_len[cy + 1]
     THEN
       LET line == buf.lines[cy + 1]
           n == DeleteCount(buf.line_len[cy + 1], cx)
       IN IF ~(InBounds(line, cx + 1, n) /\ InBounds(line, cx, n))
          THEN Undefined(e)
          ELSE Defined([e EXCEPT
                 !.buffer.lines[cy + 1] = memmove(line, cx, cx + 1, n),
                 !.buffer.line_len[cy + 1] = @ - 1])
     ELSE IF cy + 1 >= buf.num_lines THEN Defined(e)
     ELSE IF ~LiveRow(buf, cy + 1) THEN Undefined(e)
     ELSE
       LET len == buf.line_len[cy + 1]
           next_len == buf.line_len[cy + 2]
           grown == realloc(buf.lines[cy + 1], len + next_len + 1)
       IN IF ~(len >= 0 /\ InBounds(buf.lines[cy + 2], 0, next_len + 1))
          THEN Undefined(e)
          ELSE
            LET line == memcpy(grown, len, buf.lines[cy + 2], next_len + 1)
                merged == [buf EXCEPT !.lines[cy + 1] = line,
                                      !.line_len[cy + 1] = @ + next_len]
            IN Defined([e EXCEPT !.buffer = delete_line(merged, cy + 1)])

insert_newline(e) ==
  LET buf == buffer_ensure_capacity(e.buffer, e.buffer.num_lines + 1)
      cx == e.cursor.cx
      cy == e.cursor.cy
  IN IF ~LiveRow(buf, cy) THEN Undefined(e)
     ELSE
       LET line == buf.lines[cy + 1]
       IN IF ~(cx >= 0 /\ HasNul(line, cx)) THEN Undefined(e)
          ELSE
            LET right == strdup(line, cx)
                left == realloc([line EXCEPT ![cx + 1] = NUL], cx + 1)
            IN Defined([e EXCEPT
                 !.buffer = [buf EXCEPT
                    !.lines = InsertAt([@ EXCEPT ![cy + 1] = left], cy + 1, right),
                    !.line_len = InsertAt([@ EXCEPT ![cy + 1] = cx], cy + 1,
                                          strlen(right)),
                    !.num_lines = @ + 1],
                 !.cursor.cy = cy + 1,
                 !.cursor.cx = 0])

(***************************************************************************)
(* main: the state after load_file and initscr, then the event loop.       *)
(***************************************************************************)
UBOutcomes == {"crashed", "corrupt"}

Rows == 1..MaxRows
Columns == 1..MaxCols

RECURSIVE Sum(_)
Sum(s) == IF s = <<>> THEN 0 ELSE Head(s) + Sum(Tail(s))

\* The model's bounds on what is typed.
RoomForChar == Sum(ed.buffer.line_len) < MaxChars
RoomForLine == ed.buffer.num_lines < MaxLines

Init ==
  /\ \E in \in Inputs(MaxLines, MaxChars, Typed) : ed = load_file(FileOf(in))
  /\ LINES \in Rows
  /\ COLS \in Columns
  /\ pc = "redraw"
  /\ ch = NoKey
  /\ msg = ""
  /\ f = NoStream
  /\ input = NoInput
  /\ hist = <<>>

\* The end of a call: the Editor it leaves, or one outcome of its undefined behaviour.
Returns(r, next) ==
  IF r.ok THEN ed' = r.ed /\ pc' = next
  ELSE ed' = ed /\ pc' \in UBOutcomes

\* KeySave leaving the loop body with `continue`: straight back to redraw's
\* caller without clamp_cursor.
KeySave_without_clamp ==
  /\ pc = "getch"
  /\ \E w \in save_buffer(ed) : msg' = StatusMessage(w.ret)
  /\ ch' = "CTRL_S"
  /\ pc' = "redraw"
  /\ UNCHANGED <<ed, LINES, COLS, f, input, hist>>

\* case 19, case 23
KeySave ==
  /\ pc = "getch"
  /\ \E w \in save_buffer(ed) : msg' = StatusMessage(w.ret)
  /\ ch' = "CTRL_S"
  /\ pc' = "clamp"
  /\ UNCHANGED <<ed, LINES, COLS, f, input, hist>>

KeyUp ==
  /\ pc = "getch"
  /\ ed' = [ed EXCEPT !.cursor.cy = @ - 1]
  /\ ch' = "KEY_UP"
  /\ pc' = "clamp"
  /\ UNCHANGED <<LINES, COLS, msg, f, input, hist>>

KeyDown ==
  /\ pc = "getch"
  /\ ed' = [ed EXCEPT !.cursor.cy = @ + 1]
  /\ ch' = "KEY_DOWN"
  /\ pc' = "clamp"
  /\ UNCHANGED <<LINES, COLS, msg, f, input, hist>>

KeyLeft ==
  /\ pc = "getch"
  /\ ed' = [ed EXCEPT !.cursor.cx = @ - 1]
  /\ ch' = "KEY_LEFT"
  /\ pc' = "clamp"
  /\ UNCHANGED <<LINES, COLS, msg, f, input, hist>>

KeyRight ==
  /\ pc = "getch"
  /\ ed' = [ed EXCEPT !.cursor.cx = @ + 1]
  /\ ch' = "KEY_RIGHT"
  /\ pc' = "clamp"
  /\ UNCHANGED <<LINES, COLS, msg, f, input, hist>>

\* case KEY_BACKSPACE, case 127
KeyBackspace ==
  /\ pc = "getch"
  /\ Returns(backspace(ed), "clamp")
  /\ ch' = "KEY_BACKSPACE"
  /\ UNCHANGED <<LINES, COLS, msg, f, input, hist>>

KeyDelete ==
  /\ pc = "getch"
  /\ Returns(delete_at_cursor(ed), "clamp")
  /\ ch' = "KEY_DC"
  /\ UNCHANGED <<LINES, COLS, msg, f, input, hist>>

\* case '\n', case KEY_ENTER
KeyEnter ==
  /\ pc = "getch"
  /\ RoomForLine
  /\ Returns(insert_newline(ed), "clamp")
  /\ ch' = "KEY_ENTER"
  /\ UNCHANGED <<LINES, COLS, msg, f, input, hist>>

\* default, ch in 32..126
KeyChar ==
  /\ pc = "getch"
  /\ RoomForChar
  /\ \E c \in Typed : Returns(insert_char(ed, c), "clamp") /\ ch' = c
  /\ UNCHANGED <<LINES, COLS, msg, f, input, hist>>

\* default, any other key: nothing is dispatched
KeyIgnored ==
  /\ pc = "getch"
  /\ ch' = "KEY_HOME"
  /\ pc' = "clamp"
  /\ UNCHANGED <<ed, LINES, COLS, msg, f, input, hist>>

\* The terminal was resized: getch has updated LINES and COLS and returns
\* KEY_RESIZE, which the default arm ignores.
KeyResize ==
  /\ pc = "getch"
  /\ \E h \in Rows, w \in Columns :
        /\ <<h, w>> # <<LINES, COLS>>
        /\ LINES' = h
        /\ COLS' = w
  /\ ch' = "KEY_RESIZE"
  /\ pc' = "clamp"
  /\ UNCHANGED <<ed, msg, f, input, hist>>

\* ch == 27: the loop ends, endwin, buffer_free
KeyEscape ==
  /\ pc = "getch"
  /\ ch' = "ESC"
  /\ pc' = "exited"
  /\ ed' = [ed EXCEPT !.buffer.lines = <<>>, !.buffer.line_len = <<>>]
  /\ UNCHANGED <<LINES, COLS, msg, f, input, hist>>

Clamp ==
  /\ pc = "clamp"
  /\ Returns(clamp_cursor(ed, LINES, COLS), "redraw")
  /\ UNCHANGED <<LINES, COLS, ch, msg, f, input, hist>>

\* redraw, then back to getch: clear() wipes the status line and ch is about
\* to be overwritten.
Redraw ==
  /\ pc = "redraw"
  /\ IF redraw(ed, LINES) THEN pc' = "getch" ELSE pc' \in UBOutcomes
  /\ msg' = ""
  /\ ch' = NoKey
  /\ UNCHANGED <<ed, LINES, COLS, f, input, hist>>

Next ==
  \/ KeySave \/ KeyUp \/ KeyDown \/ KeyLeft \/ KeyRight
  \/ KeyBackspace \/ KeyDelete \/ KeyEnter \/ KeyChar
  \/ KeyIgnored \/ KeyResize \/ KeyEscape
  \/ Clamp \/ Redraw

Spec == Init /\ [][Next]_vars

(***************************************************************************)
(* Claims about the event loop, checked under Spec.                        *)
(***************************************************************************)
Running == pc \in {"getch", "clamp", "redraw"}

\* The precondition of the editing operations.
ValidCursor(e) ==
  /\ 0 <= e.cursor.cy
  /\ e.cursor.cy < e.buffer.num_lines
  /\ e.cursor.cy < Len(e.buffer.line_len)
  /\ 0 <= e.cursor.cx
  /\ e.cursor.cx <= e.buffer.line_len[e.cursor.cy + 1]

\* C1: in every state of a session, whatever keys were pressed, the buffer
\* holds at least one line; and the buffer loaded from an empty file is
\* exactly one empty line.
C1_AtLeastOneLine ==
  /\ ed.buffer.num_lines >= 1
  /\ Running => Len(ed.buffer.lines) = ed.buffer.num_lines
  /\ (pc = "redraw" /\ ch = NoKey) =>
        /\ load_file(<<>>).buffer.num_lines = 1
        /\ Texts(load_file(<<>>).buffer) = << <<>> >>

\* A backspace has just merged the second of two lines into the first (the
\* cursor stands behind the first line's old text) and one line is left.
C1_Witness ==
  /\ pc = "clamp"
  /\ ch = "KEY_BACKSPACE"
  /\ ed.buffer.num_lines = 1
  /\ ed.cursor.cx = 1
  /\ ed.buffer.lines = << <<"a", NUL>> >>

\* C2: after every execution of clamp_cursor the cursor is inside the
\* buffer: 0 <= cy < num_lines and 0 <= cx <= line_len[cy].
C2_ClampedCursorInBuffer ==
  (pc = "redraw" /\ ch # NoKey) => ValidCursor(ed)

\* clamp_cursor has just run after KEY_UP on the first row (cy was -1) and
\* after KEY_LEFT in column 0 (cx was -1) is reached the same way.
C2_Witness ==
  /\ pc = "redraw"
  /\ ch = "KEY_UP"
  /\ ed.cursor.cy = 0
  /\ ed.buffer.num_lines > 1

\* C3: after every clamp pass the place redraw moves the cursor to lies on
\* the screen: 0 <= cy - rowoff < LINES and 0 <= cx - coloff < COLS, also
\* when the terminal was resized since the previous clamp.
C3_CursorOnScreen ==
  (pc = "redraw" /\ LINES >= 1 /\ COLS >= 1) =>
     /\ 0 <= ScreenPos(ed).y /\ ScreenPos(ed).y < LINES
     /\ 0 <= ScreenPos(ed).x /\ ScreenPos(ed).x < COLS

\* clamp_cursor has just run after a resize and the view is scrolled both
\* ways to keep the cursor on a one-cell screen.
C3_Witness ==
  /\ pc = "redraw"
  /\ ch = "KEY_RESIZE"
  /\ LINES = 1 /\ COLS = 1
  /\ ed.cursor.rowoff = ed.cursor.cy /\ ed.cursor.cy > 0
  /\ ed.cursor.coloff = ed.cursor.cx /\ ed.cursor.cx > 0

\* C4: whenever the loop is about to dispatch a key, the cursor satisfies
\* the precondition of the editing operations, and no call of the loop ever
\* leaves an allocation (no out-of-range index is reachable).
C4_EditsDispatchedInRange ==
  /\ pc = "getch" => ValidCursor(ed)
  /\ pc \notin UBOutcomes

\* An editing operation has just been dispatched with the cursor at the end
\* of the last line of a buffer of several lines.
C4_Witness ==
  /\ pc = "clamp"
  /\ ch = "KEY_DC"
  /\ ed.buffer.num_lines = MaxLines
  /\ ed.cursor.cy = ed.buffer.num_lines - 1
  /\ ed.cursor.cx = 1

\* C6: in every state of a session, the tracked length of every line is the
\* position of its terminator.
C6_TrackedLengths ==
  Running =>
    \A i \in 0..(ed.buffer.num_lines - 1) :
       /\ i < Len(ed.buffer.lines) /\ i < Len(ed.buffer.line_len)
       /\ HasNul(ed.buffer.lines[i + 1], 0)
       /\ ed.buffer.line_len[i + 1] = strlen(ed.buffer.lines[i + 1])

\* A backspace has just removed a character inside a line: the allocation
\* is longer than the text and its terminator.
C6_Witness ==
  /\ pc = "clamp"
  /\ ch = "KEY_BACKSPACE"
  /\ ed.buffer.num_lines = 2
  /\ ed.buffer.lines[2] = <<NUL, NUL>>
  /\ ed.buffer.line_len[2] = 0

\* C12: backspace with the cursor at (0, 0) changes nothing: the lines, the
\* line count, the cursor and the scroll offsets after the event, the clamp
\* that follows it included, are those before it.
C12_BackspaceAtOriginIsNoOp ==
  [][(/\ pc = "getch"
      /\ ch' = "KEY_BACKSPACE"
      /\ ed.cursor.cx = 0
      /\ ed.cursor.cy = 0)
     => /\ pc' = "clamp"
        /\ ed' = ed
        /\ clamp_cursor(ed', LINES', COLS') = [ok |-> TRUE, ed |-> ed]]_vars

\* Backspace was pressed at (0, 0) of a buffer that is full and starts with
\* an empty line of exactly one byte: neither a deletion inside the line
\* (which leaves slack behind the terminator) nor a merge (which needs one
\* line more) leaves this state.
C12_Witness ==
  /\ pc = "clamp"
  /\ ch = "KEY_BACKSPACE"
  /\ ed.cursor.cx = 0
  /\ ed.cursor.cy = 0
  /\ ed.buffer.num_lines = MaxLines
  /\ ed.buffer.lines[1] = <<NUL>>

\* C14: every key other than Escape is followed by exactly one clamp and
\* then exactly one redraw before the next key is read, whatever the key
\* was; redraw is entered from the clamp only and changes nothing, so it
\* never runs on a cursor that was not clamped since the last mutation.
C14_EventOrdering ==
  [][/\ (pc = "getch" /\ ch' # "ESC") => pc' = "clamp"
     /\ (pc = "getch" /\ ch' = "ESC") => pc' = "exited"
     /\ pc = "clamp" => (pc' = "redraw" /\ ch' = ch)
     /\ pc = "redraw" => (pc' = "getch" /\ ed' = ed)
     /\ pc' = "redraw" => pc = "clamp"
     /\ pc' = "getch" => pc = "redraw"
     /\ ed' # ed => pc \in {"getch", "clamp"}]_vars

\* A key the switch ignores has been read and clamp_cursor has run: redraw
\* is next.
C14_Witness ==
  /\ pc = "redraw"
  /\ ch = "KEY_HOME"
  /\ ed.buffer.num_lines = 2
  /\ ed.cursor.cy = 1

\* C17: a save event never changes the document or the cursor: whether the
\* write succeeds or fails at open, at a line write or at close, the Editor
\* after the event, its clamp and redraw included, is the one before it; a
\* failure at any of the three stages gives the failure outcome and its
\* status message; and the loop is back at getch afterwards.
C17_SaveLeavesDocument ==
  [][/\ (pc = "getch" /\ ch' = "CTRL_S") =>
          /\ ed' = ed
          /\ pc' = "clamp"
          /\ \A w \in save_buffer(ed) :
                /\ w.stage \in {"fopen", "fputs", "fputc", "fclose"} =>
                      (w.ret = 0 /\ StatusMessage(w.ret) = "ERROR: Failed to save file")
                /\ w.ret = 0 => w.stage \in {"fopen", "fputs", "fputc", "fclose"}
          /\ {w.stage : w \in save_buffer(ed)} =
                {"fopen", "fputs", "fputc", "fclose", "done"}
          /\ msg' \in {StatusMessage(w.ret) : w \in save_buffer(ed)}
     /\ (pc = "clamp" /\ ch = "CTRL_S") => (ed' = ed /\ pc' = "redraw")
     /\ (pc = "redraw" /\ ch = "CTRL_S") => (ed' = ed /\ pc' = "getch")]_vars

\* A save failed with the cursor on the second row of a scrolled view: the
\* failure message is up, clamp_cursor has run and redraw is next.
C17_Witness ==
  /\ pc = "redraw"
  /\ ch = "CTRL_S"
  /\ msg = "ERROR: Failed to save file"
  /\ ed.cursor.cy = 1
  /\ ed.cursor.rowoff = 1
  /\ ed.buffer.num_lines = MaxLines

\* C20: whenever redraw runs, the first time after load included,
\* 0 <= rowoff <= cy < num_lines and 0 <= coloff <= cx, every line index
\* i + rowoff it reads is in [0, num_lines) and a line is indexed at coloff
\* only inside its text; rowoff and coloff are negative in no state, the
\* one between an unchecked movement and the clamp included.
C20_RedrawInRange ==
  /\ Running => (ed.cursor.rowoff >= 0 /\ ed.cursor.coloff >= 0)
  /\ pc = "redraw" =>
       /\ 0 <= ed.cursor.rowoff
       /\ ed.cursor.rowoff <= ed.cursor.cy
       /\ ed.cursor.cy < ed.buffer.num_lines
       /\ 0 <= ed.cursor.coloff
       /\ ed.cursor.coloff <= ed.cursor.cx
       /\ \A r \in DrawnRows(ed, LINES) :
             /\ 0 <= r
             /\ r < ed.buffer.num_lines
             /\ r < Len(ed.buffer.lines)
             /\ ed.buffer.line_len[r + 1] > ed.cursor.coloff =>
                   /\ ed.cursor.coloff < strlen(ed.buffer.lines[r + 1])
                   /\ InBounds(ed.buffer.lines[r + 1], ed.cursor.coloff, 1)

\* KEY_LEFT was pressed in column 0 of the last row of a scrolled view: cx
\* was -1 before the clamp, and redraw is about to run with both offsets
\* in range.
C20_Witness ==
  /\ pc = "redraw"
  /\ ch = "KEY_LEFT"
  /\ ed.cursor.cx = 0
  /\ ed.cursor.coloff = 0
  /\ ed.cursor.cy = MaxLines - 1
  /\ ed.cursor.rowoff = MaxLines - 1

(***************************************************************************)
(* The operations called on their own: a loaded buffer, a cursor anywhere  *)
(* in or just outside it, and up to MaxOps calls in a row with no clamp in *)
(* between.  hist keeps each call and the Editor it was given.             *)
(***************************************************************************)
Cursors(e) ==
  {[cx |-> x, cy |-> y, rowoff |-> 0, coloff |-> 0] :
     y \in -1..e.buffer.num_lines, x \in -1..(FileChars + 1)}

InitOps ==
  /\ \E in \in Inputs(FileLines, FileChars, Chars) :
       \E c \in Cursors(load_file(FileOf(in))) :
          /\ ed = [load_file(FileOf(in)) EXCEPT !.cursor = c]
          /\ LiveRow(ed.buffer, c.cy) => c.cx <= ed.buffer.line_len[c.cy + 1] + 1
          /\ ~LiveRow(ed.buffer, c.cy) => c.cx \in {-1, 0, 1}
  /\ LINES = 1
  /\ COLS = 1
  /\ pc = "call"
  /\ ch = NoKey
  /\ msg = ""
  /\ f = NoStream
  /\ input = NoInput
  /\ hist = <<>>

Called(op, r) ==
  /\ pc = "call"
  /\ Len(hist) < MaxOps
  /\ Returns(r, "call")
  /\ hist' = Append(hist, [op |-> op, before |-> ed, ok |-> r.ok])
  /\ UNCHANGED <<LINES, COLS, ch, msg, f, input>>

CallInsertChar == \E c \in Chars : Called("insert_char", insert_char(ed, c))
CallBackspace == Called("backspace", backspace(ed))
CallDelete == Called("delete_at_cursor", delete_at_cursor(ed))
CallNewline == Called("insert_newline", insert_newline(ed))

NextOps == CallInsertChar \/ CallBackspace \/ CallDelete \/ CallNewline

SpecOps == InitOps /\ [][NextOps]_vars

(***************************************************************************)
(* Load, then save: main up to initscr, then one Ctrl+S.  input is the     *)
(* file on disk, f what save_buffer put on its stream.                     *)
(***************************************************************************)
InitRoundTrip ==
  /\ input \in Inputs(FileLines, FileChars, Chars)
  /\ ed = [buffer |-> [lines |-> <<>>, line_len |-> <<>>, num_lines |-> 0,
                       capacity |-> 0],
           cursor |-> [cx |-> 0, cy |-> 0, rowoff |-> 0, coloff |-> 0]]
  /\ LINES = 1
  /\ COLS = 1
  /\ pc = "load"
  /\ ch = NoKey
  /\ msg = ""
  /\ f = NoStream
  /\ hist = <<>>

Load ==
  /\ pc = "load"
  /\ ed' = load_file(FileOf(input))
  /\ pc' = "save"
  /\ UNCHANGED <<LINES, COLS, ch, msg, f, input, hist>>

\* fopen fails in load_file: main returns 1
LoadFails ==
  /\ pc = "load"
  /\ pc' = "exited"
  /\ UNCHANGED <<ed, LINES, COLS, ch, msg, f, input, hist>>

Save ==
  /\ pc = "save"
  /\ \E w \in save_buffer(ed) : f' = w /\ msg' = StatusMessage(w.ret)
  /\ ch' = "CTRL_S"
  /\ pc' = "saved"
  /\ UNCHANGED <<ed, LINES, COLS, input, hist>>

NextRoundTrip == Load \/ LoadFails \/ Save

SpecRoundTrip == InitRoundTrip /\ [][NextRoundTrip]_vars

(***************************************************************************)
(* Claims about the operations, checked under SpecOps, and about load and  *)
(* save, checked under SpecRoundTrip.                                      *)
(***************************************************************************)

\* A buffer as load_file and the operations on a valid cursor leave it.
WellFormed(buf) ==
  /\ buf.num_lines >= 1
  /\ Len(buf.lines) = buf.num_lines
  /\ Len(buf.line_len) = buf.num_lines
  /\ \A i \in 1..buf.num_lines :
        HasNul(buf.lines[i], 0) /\ buf.line_len[i] = strlen(buf.lines[i])

Last == hist[Len(hist)]
Prev == hist[Len(hist) - 1]

\* The call `op` has just been made on a well-formed buffer with a valid cursor.
JustCalled(op) ==
  /\ Len(hist) >= 1
  /\ Last.op = op
  /\ WellFormed(Last.before.buffer)
  /\ ValidCursor(Last.before)

\* `first` then `second` have just been called, `first` on a well-formed
\* buffer with a valid cursor.
JustCalledBoth(first, second) ==
  /\ Len(hist) >= 2
  /\ Prev.op = first
  /\ Last.op = second
  /\ WellFormed(Prev.before.buffer)
  /\ ValidCursor(Prev.before)

\* The document and the cursor place of e are those of e0.
Restored(e, e0) ==
  /\ pc = "call"
  /\ WellFormed(e.buffer)
  /\ e.buffer.num_lines = e0.buffer.num_lines
  /\ Texts(e.buffer) = Texts(e0.buffer)
  /\ e.cursor.cy = e0.cursor.cy
  /\ e.cursor.cx = e0.cursor.cx

\* C5: an operation called with a row outside [0, num_lines) or a column
\* outside [0, line_len[row]] fails and leaves the buffer and the cursor as
\* they were.  Stated for the calls that stay inside their allocations and
\* return; the others are undefined behaviour, which leaves nothing as it was.
C5_OutOfRangeLeavesStateUnchanged ==
  (/\ Len(hist) = 1
   /\ WellFormed(Last.before.buffer)
   /\ ~ValidCursor(Last.before)
   /\ Last.ok)
  => (pc = "call" /\ ed = Last.before)

\* C7: the lines save writes after loading the lines X are X, each followed
\* by '\n'; after loading an empty file, the one empty line.
C7_LoadSaveRoundTrip ==
  (pc = "saved" /\ f.ret = 1) =>
     f.out = Joined(IF input.X = <<>> THEN << <<>> >> ELSE input.X)

\* A file of two lines, the second without its '\n', was loaded and saved.
C7_Witness ==
  /\ pc = "saved"
  /\ f.ret = 1
  /\ input.X = << <<"a">>, <<"b">> >>
  /\ ~input.eofnl

\* C8: insert_newline at (row, c) and then backspace at (row+1, 0) restore
\* the lines and the cursor (row, c).
C8_SplitThenMerge ==
  JustCalledBoth("insert_newline", "backspace") => Restored(ed, Prev.before)

\* A line of two characters was split between them and joined again, with
\* another line below it.
C8_Witness ==
  /\ JustCalledBoth("insert_newline", "backspace")
  /\ Prev.before.cursor.cx = 1
  /\ Prev.before.cursor.cy = 0
  /\ Prev.before.buffer.line_len = <<2, 0>>
  /\ pc = "call"

\* C9: insert_char at (row, c) and then backspace at column c+1 restore the
\* line, the other lines, the line count and the cursor column c.
C9_InsertThenBackspace ==
  JustCalledBoth("insert_char", "backspace") => Restored(ed, Prev.before)

\* A character was typed between two others and removed again.
C9_Witness ==
  /\ JustCalledBoth("insert_char", "backspace")
  /\ Prev.before.cursor.cx = 1
  /\ Prev.before.buffer.line_len[Prev.before.cursor.cy + 1] = 2
  /\ Prev.before.buffer.num_lines = 1
  /\ pc = "call"

\* C10: Enter at a valid cursor (row, c) leaves the prefix [0, c) in
\* lines[row], puts the suffix [c, length) in a new line row+1, moves every
\* later line down by one, leaves the earlier lines alone, adds one to the
\* line count and puts the cursor at (row+1, 0).
C10_EnterSplitsLine ==
  JustCalled("insert_newline") =>
    LET before == Last.before
        row == before.cursor.cy
        c == before.cursor.cx
        old == Texts(before.buffer)
    IN /\ pc = "call"
       /\ WellFormed(ed.buffer)
       /\ ed.buffer.num_lines = before.buffer.num_lines + 1
       /\ Texts(ed.buffer)[row + 1] = SubSeq(old[row + 1], 1, c)
       /\ Texts(ed.buffer)[row + 2] = SubSeq(old[row + 1], c + 1, Len(old[row + 1]))
       /\ \A i \in 1..row : Texts(ed.buffer)[i] = old[i]
       /\ \A i \in (row + 2)..Len(old) : Texts(ed.buffer)[i + 1] = old[i]
       /\ ed.cursor.cy = row + 1
       /\ ed.cursor.cx = 0

\* Enter at the end of the first of two lines: "a", "b" became "a", "", "b"
\* with the cursor at (1, 0).
C10_Witness ==
  /\ JustCalled("insert_newline")
  /\ Len(hist) = 1
  /\ Texts(Last.before.buffer) = << <<"a">>, <<"b">> >>
  /\ Last.before.cursor.cy = 0
  /\ Last.before.cursor.cx = 1
  /\ Texts(ed.buffer) = << <<"a">>, <<>>, <<"b">> >>
  /\ ed.cursor.cy = 1
  /\ ed.cursor.cx = 0

(***************************************************************************)
(* Moving down: a file of empty lines is loaded and KEY_DOWN is pressed up *)
(* to MaxDowns times, the terminal keeping its size.  hist keeps the keys. *)
(***************************************************************************)
EmptyLines(n) == [i \in 1..n |-> <<>>]

InitDown ==
  /\ \E L \in 0..DownLines : ed = load_file(Joined(EmptyLines(L)))
  /\ LINES \in 1..DownRows
  /\ COLS \in Columns
  /\ pc = "redraw"
  /\ ch = NoKey
  /\ msg = ""
  /\ f = NoStream
  /\ input = NoInput
  /\ hist = <<>>

\* case KEY_DOWN, counted
KeyDownCounted ==
  /\ pc = "getch"
  /\ Len(hist) < MaxDowns
  /\ ed' = [ed EXCEPT !.cursor.cy = @ + 1]
  /\ ch' = "KEY_DOWN"
  /\ pc' = "clamp"
  /\ hist' = Append(hist, "KEY_DOWN")
  /\ UNCHANGED <<LINES, COLS, msg, f, input>>

NextDown == KeyDownCounted \/ Clamp \/ Redraw

SpecDown == InitDown /\ [][NextDown]_vars

Min(a, b) == IF a < b THEN a ELSE b
Max(a, b) == IF a > b THEN a ELSE b

\* C15: from the freshly loaded state (rowoff = 0), with a viewport of
\* constant height h >= 1, after n KEY_DOWN events in a row on a buffer of L
\* lines the cursor row is r = min(n, L - 1) and rowoff = max(0, r - h + 1).
C15_ScrollingDown ==
  /\ pc \notin UBOutcomes
  /\ pc \in {"redraw", "getch"} =>
       LET r == Min(Len(hist), ed.buffer.num_lines - 1)
       IN /\ ed.cursor.cy = r
          /\ ed.cursor.rowoff = Max(0, r - LINES + 1)

\* Viewport height 10, 20 lines, the cursor moved down to row 15: rowoff is 6.
C15_Witness ==
  /\ pc = "getch"
  /\ LINES = 10
  /\ ed.buffer.num_lines = 20
  /\ Len(hist) = 15
  /\ ed.cursor.cy = 15
  /\ ed.cursor.rowoff = 6

(***************************************************************************)
(* clamp_cursor called on its own: a loaded buffer, any cursor and scroll  *)
(* offsets, valid or not, a viewport of fixed size, and up to MaxOps calls *)
(* in a row.                                                               *)
(***************************************************************************)
AnyCursors ==
  [cx : -ClampSpan..ClampSpan, cy : -ClampSpan..ClampSpan,
   rowoff : -ClampSpan..ClampSpan, coloff : -ClampSpan..ClampSpan]

InitClamp ==
  /\ \E in \in Inputs(FileLines, FileChars, Typed), c \in AnyCursors :
        ed = [load_file(FileOf(in)) EXCEPT !.cursor = c]
  /\ LINES \in Rows
  /\ COLS \in Columns
  /\ pc = "call"
  /\ ch = NoKey
  /\ msg = ""
  /\ f = NoStream
  /\ input = NoInput
  /\ hist = <<>>

CallClamp == Called("clamp_cursor", clamp_cursor(ed, LINES, COLS))

NextClamp == CallClamp

SpecClamp == InitClamp /\ [][NextClamp]_vars

\* C16: for a buffer of at least one line, any cursor and scroll values and
\* a fixed viewport of at least 1 x 1, clamp_cursor applied twice in a row
\* gives the cx, cy, rowoff and coloff that applying it once gives.
C16_ClampIdempotent ==
  (Len(hist) >= 2 /\ Prev.before.buffer.num_lines >= 1 /\ LINES >= 1 /\ COLS >= 1)
  => /\ pc = "call"
     /\ ed.cursor = Last.before.cursor

\* clamp_cursor ran twice from a cursor below the last line and right of its
\* end, with both offsets negative: the first call changed all four values.
C16_Witness ==
  /\ Len(hist) = 2
  /\ pc = "call"
  /\ Prev.before.cursor =
       [cx |-> ClampSpan, cy |-> ClampSpan, rowoff |-> -ClampSpan, coloff |-> -ClampSpan]
  /\ Last.before.cursor.cx < ClampSpan
  /\ Last.before.cursor.cy < ClampSpan
  /\ Last.before.cursor.rowoff > -ClampSpan
  /\ Last.before.cursor.coloff > -ClampSpan

\* The four steps of the specified algorithm, each offset adjusted with
\* `if ... else if`.
ClampAsSpecified(e, h, w) ==
  LET count == e.buffer.num_lines
      row == Max(0, Min(e.cursor.cy, count - 1))
      column == Max(0, Min(e.cursor.cx, e.buffer.line_len[row + 1]))
      row_scroll == IF row < e.cursor.rowoff THEN row
                    ELSE IF row >= e.cursor.rowoff + h THEN row - h + 1
                    ELSE e.cursor.rowoff
      col_scroll == IF column < e.cursor.coloff THEN column
                    ELSE IF column >= e.cursor.coloff + w THEN column - w + 1
                    ELSE e.cursor.coloff
  IN [cx |-> column, cy |-> row, rowoff |-> row_scroll, coloff |-> col_scroll]

\* C18: clamp_cursor, with its two sequential if-statements per offset,
\* computes the cy, cx, rowoff and coloff of the specified algorithm for
\* every buffer of at least one line, every cursor and scroll state and every
\* viewport of at least 1 x 1; it leaves an offset alone when the clamped
\* cursor already lies inside the viewport, and never modifies the buffer.
C18_ClampAsSpecified ==
  (Len(hist) >= 1 /\ Last.before.buffer.num_lines >= 1 /\ LINES >= 1 /\ COLS >= 1)
  => LET before == Last.before.cursor IN
     /\ pc = "call"
     /\ ed.cursor = ClampAsSpecified(Last.before, LINES, COLS)
     /\ ed.buffer = Last.before.buffer
     /\ (before.rowoff <= ed.cursor.cy /\ ed.cursor.cy < before.rowoff + LINES)
          => ed.cursor.rowoff = before.rowoff
     /\ (before.coloff <= ed.cursor.cx /\ ed.cursor.cx < before.coloff + COLS)
          => ed.cursor.coloff = before.coloff

\* clamp_cursor ran once on a cursor above its viewport and left of it: the
\* first if-statement of each pair fired, the second did not.
C18_Witness ==
  /\ Len(hist) = 1
  /\ pc = "call"
  /\ Last.before.cursor = [cx |-> 1, cy |-> 1, rowoff |-> 2, coloff |-> 2]
  /\ Last.before.buffer.line_len = <<0, 1>>
  /\ ed.cursor = [cx |-> 1, cy |-> 1, rowoff |-> 1, coloff |-> 1]

(***************************************************************************)
(* The line array near its capacity: load_file reads a file of about       *)
(* InitialCapacity empty lines, one iteration of its loop per step, and    *)
(* the operations are then called at the cursor load_file set.  Here input *)
(* is the part of the file getline has not read yet.                       *)
(***************************************************************************)
\* The file of n empty lines: n times '\n'.
NewLines(n) == [i \in 1..n |-> NL]

InitCapacity ==
  /\ \E L \in (InitialCapacity - NearCapacity)..(InitialCapacity + NearCapacity) :
       input = NewLines(L)
  /\ ed = [buffer |-> buffer_init(InitialCapacity),
           cursor |-> [cx |-> 0, cy |-> 0, rowoff |-> 0, coloff |-> 0]]
  /\ LINES = 1
  /\ COLS = 1
  /\ pc = "load"
  /\ ch = NoKey
  /\ msg = ""
  /\ f = NoStream
  /\ hist = <<>>

\* one iteration of load_file's while loop
LoadLine ==
  /\ pc = "load"
  /\ input # <<>>
  /\ ed' = [ed EXCEPT !.buffer = AppendLine(@, NextLine(input))]
  /\ input' = SubSeq(input, Len(NextLine(input)) + 1, Len(input))
  /\ UNCHANGED <<LINES, COLS, pc, ch, msg, f, hist>>

\* getline returns -1: the rest of load_file
LoadEnd ==
  /\ pc = "load"
  /\ input = <<>>
  /\ ed' = [ed EXCEPT !.buffer = EnsureOneLine(@)]
  /\ pc' = "call"
  /\ UNCHANGED <<LINES, COLS, ch, msg, f, input, hist>>

NextCapacity ==
  \/ LoadLine \/ LoadEnd
  \/ CallInsertChar \/ CallBackspace \/ CallDelete \/ CallNewline

SpecCapacity == InitCapacity /\ [][NextCapacity]_vars

RECURSIVE Pow2(_)
Pow2(k) == IF k = 0 THEN 1 ELSE 2 * Pow2(k - 1)

\* The smallest old * 2^k with k >= 1 that is at least `required`.
SmallestDoubling(old, required) ==
  old * Pow2(CHOOSE k \in 1..(required + 1) :
               /\ old * Pow2(k) >= required
               /\ k > 1 => old * Pow2(k - 1) < required)

\* C19: num_lines <= capacity in every state; capacity never decreases; it
\* changes only when an append or a split needs num_lines + 1 > capacity,
\* and then becomes the smallest old capacity * 2^k (k >= 1) that is at
\* least the count needed, so that every slot written lies inside the array.
C19_CapacityDoubling ==
  /\ [](/\ pc \notin UBOutcomes
        /\ ed.buffer.num_lines <= ed.buffer.capacity
        /\ Len(ed.buffer.lines) <= ed.buffer.capacity
        /\ hist = <<>> =>
             /\ ed.buffer.capacity =
                  IF ed.buffer.num_lines <= InitialCapacity THEN InitialCapacity
                  ELSE SmallestDoubling(InitialCapacity, ed.buffer.num_lines)
             /\ \A c \in 1..TryCapacity, q \in 0..(4 * TryCapacity + 1) :
                  buffer_ensure_capacity(buffer_init(c), q).capacity =
                    IF q <= c THEN c ELSE SmallestDoubling(c, q))
  /\ [][/\ ed'.buffer.capacity >= ed.buffer.capacity
        /\ ed'.buffer.capacity # ed.buffer.capacity =>
             /\ ed.buffer.num_lines + 1 > ed.buffer.capacity
             /\ ed'.buffer.num_lines = ed.buffer.num_lines + 1
             /\ ed'.buffer.capacity =
                  SmallestDoubling(ed.buffer.capacity, ed.buffer.num_lines + 1)]_vars

\* Enter was pressed in a buffer of exactly InitialCapacity lines: the array
\* was doubled and holds one line more than it could before.
C19_Witness ==
  /\ Len(hist) >= 1
  /\ Last.op = "insert_newline"
  /\ Last.before.buffer.num_lines = InitialCapacity
  /\ Last.before.buffer.capacity = InitialCapacity
  /\ ed.buffer.num_lines = InitialCapacity + 1
  /\ ed.buffer.capacity = 2 * InitialCapacity

\* C11: backspace at column 0 of a row > 0 replaces lines[row-1] by old
\* lines[row-1] followed by old lines[row], removes lines[row] so that the
\* line count drops by exactly one, keeps every other line and their order,
\* and puts the cursor at (row-1, old length of lines[row-1]).
C11_BackspaceMergesLines ==
  (/\ JustCalled("backspace")
   /\ Last.before.cursor.cx = 0
   /\ Last.before.cursor.cy > 0)
  => LET before == Last.before
         row == before.cursor.cy
         old == Texts(before.buffer)
     IN /\ pc = "call"
        /\ WellFormed(ed.buffer)
        /\ ed.buffer.num_lines = before.buffer.num_lines - 1
        /\ Texts(ed.buffer)[row] = old[row] \o old[row + 1]
        /\ \A i \in 1..(row - 1) : Texts(ed.buffer)[i] = old[i]
        /\ \A i \in (row + 2)..Len(old) : Texts(ed.buffer)[i - 1] = old[i]
        /\ ed.cursor.cy = row - 1
        /\ ed.cursor.cx = Len(old[row])

\* Backspace at (1, 0) of the three lines "", "a", "b" that an Enter at
\* (0, 0) of "a", "b" had made: they became "a", "b", the last line moved up
\* by one, with the cursor at (0, 0).
C11_Witness ==
  /\ JustCalled("backspace")
  /\ Len(hist) = 2
  /\ Texts(Last.before.buffer) = << <<>>, <<"a">>, <<"b">> >>
  /\ Last.before.cursor.cy = 1
  /\ Last.before.cursor.cx = 0
  /\ Texts(ed.buffer) = << <<"a">>, <<"b">> >>
  /\ ed.cursor.cy = 0
  /\ ed.cursor.cx = 0

\* C13: delete with the cursor at the end of a line: if a next line exists,
\* lines[cy] becomes old lines[cy] followed by old lines[cy+1], lines[cy+1]
\* is removed and the count drops by exactly one; on the last line the
\* buffer is unchanged; in both cases and inside a line the cursor row and
\* column are unchanged.
C13_DeleteAtEndOfLine ==
  JustCalled("delete_at_cursor") =>
    LET before == Last.before
        row == before.cursor.cy
        c == before.cursor.cx
        old == Texts(before.buffer)
        atEnd == c = before.buffer.line_len[row + 1]
    IN /\ pc = "call"
       /\ WellFormed(ed.buffer)
       /\ ed.cursor.cy = row
       /\ ed.cursor.cx = c
       /\ (atEnd /\ row + 1 < before.buffer.num_lines) =>
             /\ ed.buffer.num_lines = before.buffer.num_lines - 1
             /\ Texts(ed.buffer)[row + 1] = old[row + 1] \o old[row + 2]
             /\ \A i \in 1..row : Texts(ed.buffer)[i] = old[i]
             /\ \A i \in (row + 3)..Len(old) : Texts(ed.buffer)[i - 1] = old[i]
       /\ (atEnd /\ row + 1 >= before.buffer.num_lines) =>
             ed.buffer = before.buffer

\* Delete at the end of the first line of "a", "b": the one line "ab" is
\* left and the cursor stays at (0, 1).
C13_Witness ==
  /\ JustCalled("delete_at_cursor")
  /\ Len(hist) = 1
  /\ Texts(Last.before.buffer) = << <<"a">>, <<"b">> >>
  /\ Last.before.cursor.cy = 0
  /\ Last.before.cursor.cx = 1
  /\ Texts(ed.buffer) = << <<"a", "b">> >>
  /\ ed.cursor.cy = 0
  /\ ed.cursor.cx = 1

====
